---- MODULE Spec2Model ----
(***************************************************************************)
(* A model of the forexfactory scraper's store, merge engine and day loop. *)
(*                                                                         *)
(* Text is modelled as a sequence of one-character strings, so that        *)
(* trimming, concatenation and lexicographic comparison are computed the   *)
(* way Python computes them.  A table (pandas DataFrame) is a sequence of  *)
(* records with the eight CSV columns.                                     *)
(***************************************************************************)
EXTENDS Integers, Sequences, FiniteSets, TLC

VARIABLES
    disk,           \* the store file: [state, header, rows]
    existing_df,    \* the in-memory table of the running scraper
    df_new,         \* the batch last fetched (or handed to merge_new_data)
    merged_df,      \* the table the last merge_new_data call returned
    raised,         \* TRUE when the last merge_new_data call raised
    pc,             \* position of the running entry point
    current_day,    \* loop variable of the day loop (day of month)
    to_date,        \* last day of the requested range
    scrape_details, \* the scrape_details flag of the run
    writer,         \* the code path that last changed the store file
    call_args,      \* the arguments of a function called on its own
    call_result,    \* what that call returned, or that it raised
    other_run       \* a second run on the same store file, while it waits

vars == <<disk, existing_df, df_new, merged_df, raised, pc, current_day, to_date,
          scrape_details, writer, call_args, call_result, other_run>>

(***************************************************************************)
(* Bounds of the model.                                                    *)
(***************************************************************************)
\* rows of the existing table plus rows of the batch in one merge call
MaxRows == 3
\* rows of a table handed to write_data_to_csv on its own
MaxSort == 3
\* days of the calendar the day loop can range over
MaxDay == 2
\* rows one fetched page can hold
MaxBatch == 2
\* rows the store file can hold
MaxStore == 2
\* name/description pairs of a detail mapping
MaxPairs == 2

(***************************************************************************)
(* Text.                                                                   *)
(***************************************************************************)
\* pandas' missing value (float nan in an object column)
NaN == <<"NaN">>

IsSpace(c) == c \in {" ", "\t", "\n", "\r"}

RECURSIVE lstrip(_)
lstrip(s) == IF s # <<>> /\ IsSpace(Head(s)) THEN lstrip(Tail(s)) ELSE s

RECURSIVE rstrip(_)
rstrip(s) ==
    IF s # <<>> /\ IsSpace(s[Len(s)])
    THEN rstrip(SubSeq(s, 1, Len(s) - 1))
    ELSE s

\* str.strip()
strip(s) == rstrip(lstrip(s))

\* Series.astype(str) / str(x): a missing value becomes the text "nan"
astype_str(v) == IF v = NaN THEN <<"n", "a", "n">> ELSE v

\* pd.notna / pd.notnull
notna(v) == v # NaN

\* code point of a character, for Python's string comparison
CharCode(c) ==
    CASE c = " " -> 32
      [] c = "+" -> 43
      [] c = "-" -> 45
      [] c = "0" -> 48
      [] c = "1" -> 49
      [] c = "2" -> 50
      [] c = "3" -> 51
      [] c = "4" -> 52
      [] c = "5" -> 53
      [] c = "6" -> 54
      [] c = "7" -> 55
      [] c = "8" -> 56
      [] c = "9" -> 57
      [] c = ":" -> 58
      [] c = "T" -> 84
      [] c = "_" -> 95
      [] c = "a" -> 97
      [] c = "n" -> 110
      [] OTHER -> 65

\* a < b for Python str
RECURSIVE StrLess(_, _)
StrLess(a, b) ==
    IF b = <<>> THEN FALSE
    ELSE IF a = <<>> THEN TRUE
    ELSE IF CharCode(Head(a)) # CharCode(Head(b))
         THEN CharCode(Head(a)) < CharCode(Head(b))
         ELSE StrLess(Tail(a), Tail(b))

(***************************************************************************)
(* datetime and datetime.isoformat().                                      *)
(***************************************************************************)
Digit(k) == <<"0", "1", "2", "3", "4", "5", "6", "7", "8", "9">>[k + 1]
D2(n) == <<Digit((n \div 10) % 10), Digit(n % 10)>>
D4(n) == D2(n \div 100) \o D2(n % 100)

\* a timezone-aware datetime; utcoffset in minutes
DateTimeOf(y, mo, d, h, mi, s, off) ==
    [year |-> y, month |-> mo, day |-> d, hour |-> h, minute |-> mi,
     second |-> s, utcoffset |-> off]

Abs(n) == IF n < 0 THEN -n ELSE n

\* datetime.isoformat(): YYYY-MM-DDTHH:MM:SS+HH:MM
isoformat(dt) ==
    D4(dt.year) \o <<"-">> \o D2(dt.month) \o <<"-">> \o D2(dt.day) \o <<"T">>
    \o D2(dt.hour) \o <<":">> \o D2(dt.minute) \o <<":">> \o D2(dt.second)
    \o <<(IF dt.utcoffset < 0 THEN "-" ELSE "+")>>
    \o D2(Abs(dt.utcoffset) \div 60) \o <<":">> \o D2(Abs(dt.utcoffset) % 60)

DigitValue(c) == CharCode(c) - 48

\* the number written by the characters s[a..b]
RECURSIVE Num(_, _, _)
Num(s, a, b) ==
    IF a > b THEN 0 ELSE Num(s, a, b - 1) * 10 + DigitValue(s[b])

\* the instant (seconds, counted from the start of the text's month) that an
\* ISO-8601 text with offset denotes; all texts of the model lie in one month
Instant(s) ==
    LET sign == IF s[20] = "-" THEN -1 ELSE 1
        off == sign * (Num(s, 21, 22) * 60 + Num(s, 24, 25))
    IN  ((Num(s, 9, 10) * 24 + Num(s, 12, 13)) * 60 + Num(s, 15, 16) - off) * 60
        + Num(s, 18, 19)

(***************************************************************************)
(* Tables.                                                                 *)
(***************************************************************************)
CSV_COLUMNS ==
    <<"DateTime", "Currency", "Impact", "Event", "Actual", "Forecast",
      "Previous", "Detail">>

Row(dt, cur, imp, ev, act, fc, prev, det) ==
    [DateTime |-> dt, Currency |-> cur, Impact |-> imp, Event |-> ev,
     Actual |-> act, Forecast |-> fc, Previous |-> prev, Detail |-> det]

\* DataFrame.empty
Empty(df) == Len(df) = 0

\* add_unique_key: the text the merge uses as a row's index label
unique_key(r) ==
    strip(astype_str(r.DateTime)) \o <<"_">>
    \o strip(astype_str(r.Currency)) \o <<"_">>
    \o strip(astype_str(r.Event))

\* the positions of label key in the index of df
Locs(df, key) == {i \in DOMAIN df : unique_key(df[i]) = key}

\* str(x).strip() if pd.notna(x) else ""
DetailText(v) == IF notna(v) THEN strip(astype_str(v)) ELSE <<>>

ShouldBackfillAlways(existing_detail, new_detail) == new_detail # <<>>

\* if not existing_detail and new_detail
ShouldBackfill(existing_detail, new_detail) ==
    existing_detail = <<>> /\ new_detail # <<>>

BackfillPayload(existing_row, new_detail, new_row) ==
    [new_row EXCEPT !.Detail = new_detail]

\* existing_df.at[key, "Detail"] = new_detail
Backfill(existing_row, new_detail, new_row) ==
    [existing_row EXCEPT !.Detail = new_detail]

\* the loop over new_df.iterrows(): acc is [ok, existing, new_rows]; a label
\* that is in the index more than once makes .at return a Series, and its
\* truth value raises ValueError
RECURSIVE MergeLoop(_, _, _)
MergeLoop(new_df, i, acc) ==
    IF i > Len(new_df) \/ ~acc.ok THEN acc
    ELSE
        LET new_row == new_df[i]
            locs == Locs(acc.existing, unique_key(new_row))
        IN  IF locs = {}
            THEN MergeLoop(new_df, i + 1,
                    [acc EXCEPT !.new_rows = Append(@, new_row)])
            ELSE IF Cardinality(locs) > 1
            THEN [acc EXCEPT !.ok = FALSE]
            ELSE
                LET j == CHOOSE k \in locs : TRUE
                    existing_detail == DetailText(acc.existing[j].Detail)
                    new_detail == DetailText(new_row.Detail)
                IN  IF ShouldBackfill(existing_detail, new_detail)
                    THEN MergeLoop(new_df, i + 1,
                            [acc EXCEPT !.existing[j] =
                                Backfill(@, new_detail, new_row)])
                    ELSE MergeLoop(new_df, i + 1, acc)

\* merge_new_data: [ok |-> FALSE] when it raises, else the merged table
merge_new_data(existing, new_df) ==
    IF Empty(existing) THEN [ok |-> TRUE, df |-> new_df]
    ELSE
        LET acc == MergeLoop(new_df, 1,
                       [ok |-> TRUE, existing |-> existing, new_rows |-> <<>>])
        IN  IF acc.ok
            THEN [ok |-> TRUE, df |-> acc.existing \o acc.new_rows]
            ELSE [ok |-> FALSE, df |-> existing]

(***************************************************************************)
(* The store file.  state is "absent" or "file"; header is the first line  *)
(* (<<>> when the file has zero bytes); rows are the data lines, every     *)
(* field a text.                                                           *)
(***************************************************************************)
AbsentFile == [state |-> "absent", header |-> <<>>, rows |-> <<>>]

\* open(csv_file, "w") before anything is written
TruncatedFile == [state |-> "file", header |-> <<>>, rows |-> <<>>]

\* to_csv writes a missing value as the empty field
ToCsvRow(r) == [c \in DOMAIN r |-> IF r[c] = NaN THEN <<>> ELSE r[c]]
ToCsv(df) == [i \in DOMAIN df |-> ToCsvRow(df[i])]

\* the order sort_values uses on an object column: str comparison, missing
\* values last
SortsBefore(a, b) ==
    IF a = NaN THEN FALSE ELSE IF b = NaN THEN TRUE ELSE StrLess(a, b)

\* by="DateTime", ascending=True
DateTimeBefore(r1, r2) == SortsBefore(r1.DateTime, r2.DateTime)

RECURSIVE Insert(_, _)
Insert(sorted, r) ==
    IF sorted = <<>> THEN <<r>>
    ELSE IF DateTimeBefore(r, Head(sorted)) THEN <<r>> \o sorted
    ELSE <<Head(sorted)>> \o Insert(Tail(sorted), r)

\* df.sort_values(by="DateTime", ascending=True); rows with equal DateTime
\* keep their order
RECURSIVE sort_values(_)
sort_values(df) ==
    IF df = <<>> THEN <<>>
    ELSE Insert(sort_values(SubSeq(df, 1, Len(df) - 1)), df[Len(df)])

\* the day's batch is written in place of the table
write_batch_only(df) ==
    [state |-> "file", header |-> CSV_COLUMNS, rows |-> ToCsv(sort_values(df_new))]

\* the file write_data_to_csv leaves
write_data_to_csv(df) ==
    [state |-> "file", header |-> CSV_COLUMNS, rows |-> ToCsv(sort_values(df))]

(***************************************************************************)
(* Identity of a record, as the data model defines it.                     *)
(***************************************************************************)
Identity(r) ==
    <<strip(astype_str(r.DateTime)), strip(astype_str(r.Currency)),
      strip(astype_str(r.Event))>>

NoDupIdentity(df) ==
    \A i, j \in DOMAIN df : i # j => Identity(df[i]) # Identity(df[j])

\* all sequences over S of length at most n
SeqsUpTo(S, n) == UNION {[1..k -> S] : k \in 0..n}

(***************************************************************************)
(* The merge engine on its own: merge_new_data applied to every existing   *)
(* table and batch within the bounds, and then once more to its own result *)
(* and the same batch.                                                     *)
(***************************************************************************)
T1 == isoformat(DateTimeOf(2025, 1, 5, 10, 30, 0, 210))

\* DateTime, Currency, Event
MergeKeys ==
    { <<T1, <<"A">>, <<"B", "_", "C">>>>,
      <<T1, <<"A", "_", "B">>, <<"C">>>>,
      <<T1, <<" ", "A">>, <<"B", "_", "C", " ">>>> }

\* Impact, Actual, Forecast, Previous
MergePayloads ==
    { <<<<"L">>, <<>>, <<>>, <<>>>>,
      <<<<"H">>, <<"1">>, <<"2">>, <<"3">>>> }

MergeDetails == { <<>>, <<" ">>, <<"d">>, <<"e", " ">> }

MergeRows ==
    { Row(k[1], k[2], p[1], k[3], p[2], p[3], p[4], d) :
        k \in MergeKeys, p \in MergePayloads, d \in MergeDetails }

InitMerge ==
    /\ existing_df \in SeqsUpTo(MergeRows, MaxRows)
    /\ df_new \in SeqsUpTo(MergeRows, MaxRows - Len(existing_df))
    /\ merged_df = <<>>
    /\ raised = FALSE
    /\ pc = "call"
    /\ disk = AbsentFile
    /\ current_day = 0
    /\ to_date = 0
    /\ scrape_details = FALSE
    /\ writer = "none"
    /\ call_args = <<>>
    /\ call_result = <<>>
    /\ other_run = <<>>

\* merged_df = merge_new_data(existing_df, df_new)
CallMerge ==
    /\ pc = "call"
    /\ LET r == merge_new_data(existing_df, df_new)
       IN  /\ raised' = ~r.ok
           /\ merged_df' = r.df
           /\ pc' = IF r.ok THEN "merged" ELSE "raised"
    /\ UNCHANGED <<disk, existing_df, df_new, current_day, to_date,
                   scrape_details, writer>>
    /\ UNCHANGED <<call_args, call_result, other_run>>

\* existing_df = merged_df; merged_df = merge_new_data(existing_df, df_new)
CallMergeAgain ==
    /\ pc = "merged"
    /\ LET r == merge_new_data(merged_df, df_new)
       IN  /\ existing_df' = merged_df
           /\ raised' = ~r.ok
           /\ merged_df' = r.df
           /\ pc' = IF r.ok THEN "merged_again" ELSE "raised_again"
    /\ UNCHANGED <<disk, df_new, current_day, to_date, scrape_details, writer>>
    /\ UNCHANGED <<call_args, call_result, other_run>>

NextMerge == CallMerge \/ CallMergeAgain

SpecMerge == InitMerge /\ [][NextMerge]_vars

(***************************************************************************)
(* The calendar page and parse_calendar_day.                               *)
(***************************************************************************)
\* a time label as _parse_event_time reads it: whether the lower-cased text
\* contains "day", whether it contains "data", and the <<hour, minute,
\* am/pm>> its start matches (\d{1,2}):(\d{2})(am|pm), or <<>>
Label(hasDay, hasData, clock) ==
    [day |-> hasDay, data |-> hasData, clock |-> clock]

\* str.lower(), on the letters the labels of the model are written with
lower(s) ==
    [i \in DOMAIN s |->
        CASE s[i] = "A" -> "a"
          [] s[i] = "D" -> "d"
          [] s[i] = "M" -> "m"
          [] s[i] = "N" -> "n"
          [] s[i] = "P" -> "p"
          [] OTHER -> s[i]]

\* sub in s
Contains(s, sub) ==
    \E i \in 1..(Len(s) - Len(sub) + 1) : SubSeq(s, i, i + Len(sub) - 1) = sub

IsDigit(c) == c \in {"0", "1", "2", "3", "4", "5", "6", "7", "8", "9"}

\* re.match(r'(\d{1,2}):(\d{2})(am|pm)', s): <<int(group 1), int(group 2),
\* group 3>> of the match at the start of s, <<>> when there is none
re_match(s) ==
    LET n == IF Len(s) >= 3 /\ IsDigit(s[1]) /\ IsDigit(s[2]) /\ s[3] = ":"
             THEN 2
             ELSE IF Len(s) >= 2 /\ IsDigit(s[1]) /\ s[2] = ":" THEN 1
             ELSE 0
    IN  IF /\ n > 0
           /\ Len(s) >= n + 5
           /\ IsDigit(s[n + 2])
           /\ IsDigit(s[n + 3])
           /\ s[n + 4] \in {"a", "p"}
           /\ s[n + 5] = "m"
        THEN <<Num(s, 1, n), Num(s, n + 2, n + 3),
               IF s[n + 4] = "a" THEN "am" ELSE "pm">>
        ELSE <<>>

\* what _parse_event_time reads off a label text: time_lower =
\* time_text.lower(), "day" in time_lower, "data" in time_lower, re.match
ReadLabel(time_text) ==
    LET time_lower == lower(time_text)
    IN  Label(Contains(time_lower, <<"d", "a", "y">>),
              Contains(time_lower, <<"d", "a", "t", "a">>),
              re_match(time_lower))

\* datetime.replace raises ValueError unless the fields are in range
ValidTime(dt) ==
    /\ dt.hour \in 0..23
    /\ dt.minute \in 0..59
    /\ dt.second \in 0..59

\* the "data" test is made before the "day" test
parse_event_time_data_first(time_text, day_dt) ==
    IF time_text.data
    THEN [day_dt EXCEPT !.hour = 0, !.minute = 0, !.second = 1]
    ELSE IF time_text.day
    THEN [day_dt EXCEPT !.hour = 23, !.minute = 59, !.second = 59]
    ELSE IF time_text.clock # <<>>
    THEN LET h0 == time_text.clock[1]
             mm == time_text.clock[2]
             ampm == time_text.clock[3]
             h1 == IF ampm = "pm" /\ h0 < 12 THEN h0 + 12 ELSE h0
             hh == IF ampm = "am" /\ h1 = 12 THEN 0 ELSE h1
         IN  [day_dt EXCEPT !.hour = hh, !.minute = mm, !.second = 0]
    ELSE day_dt

\* _parse_event_time(time_text, current_day)
parse_event_time(time_text, day_dt) ==
    IF time_text.day
    THEN [day_dt EXCEPT !.hour = 23, !.minute = 59, !.second = 59]
    ELSE IF time_text.data
    THEN [day_dt EXCEPT !.hour = 0, !.minute = 0, !.second = 1]
    ELSE IF time_text.clock # <<>>
    THEN LET h0 == time_text.clock[1]
             mm == time_text.clock[2]
             ampm == time_text.clock[3]
             h1 == IF ampm = "pm" /\ h0 < 12 THEN h0 + 12 ELSE h0
             hh == IF ampm = "am" /\ h1 = 12 THEN 0 ELSE h1
         IN  [day_dt EXCEPT !.hour = hh, !.minute = mm, !.second = 0]
    ELSE day_dt

\* the datetime the day loop holds for day d of January 2025 (Asia/Tehran)
DayStart(d) == DateTimeOf(2025, 1, d, 0, 0, 0, 210)

\* a row of the rendered page: the texts of its cells and the text its
\* detail panel gives (<<>> when the panel cannot be opened or is empty)
RawRow(time, cur, imp, ev, act, fc, prev, panel) ==
    [time |-> time, currency |-> cur, impact |-> imp, event |-> ev,
     actual |-> act, forecast |-> fc, previous |-> prev, panel |-> panel]

RawRows ==
    { RawRow(Label(FALSE, FALSE, <<10, 30, "am">>), cur, <<"H">>,
             <<"C", "P", "I">>, <<>>, <<"1">>, <<>>, panel) :
        cur \in {<<>>, <<"U", "S", "D">>}, panel \in {<<>>, <<"d">>} }

\* Series.str.strip(): a missing value stays missing
str_strip(v) == IF v = NaN THEN NaN ELSE strip(v)

\* the Detail of the first record of existing_df that matches the row, <<>>
\* when none matches or that Detail is blank
MatchedDetail(existing, iso, currency_text, event_text) ==
    LET matched == {i \in DOMAIN existing :
                        /\ existing[i].DateTime = iso
                        /\ str_strip(existing[i].Currency) = currency_text
                        /\ str_strip(existing[i].Event) = event_text}
    IN  IF matched = {} THEN <<>>
        ELSE LET first == CHOOSE i \in matched : \A k \in matched : i <= k
             IN  DetailText(existing[first].Detail)

\* the record parse_calendar_day builds from one row of the page
ParseRow(raw, the_date, details, existing) ==
    LET iso == isoformat(parse_event_time(raw.time, the_date))
        currency_text == strip(raw.currency)
        event_text == strip(raw.event)
        kept == IF details
                THEN MatchedDetail(existing, iso, currency_text, event_text)
                ELSE <<>>
        detail_str == IF ~details THEN <<>>
                      ELSE IF kept # <<>> THEN kept
                      ELSE raw.panel
    IN  Row(iso, currency_text, raw.impact, event_text, strip(raw.actual),
            strip(raw.forecast), strip(raw.previous), detail_str)

\* parse_calendar_day for a page that loaded
parse_calendar_day(page, the_date, details, existing) ==
    [i \in DOMAIN page |-> ParseRow(page[i], the_date, details, existing)]

(***************************************************************************)
(* Record Store operations of csv_util.py and main.py.                     *)
(***************************************************************************)
HeaderOnlyFile == [state |-> "file", header |-> CSV_COLUMNS, rows |-> <<>>]

\* csv_util.ensure_csv_header: creates the file when it does not exist
ensure_csv_header(d) == IF d.state = "absent" THEN HeaderOnlyFile ELSE d

\* ensure_csv_header of ffs.py (and main.py): rewrites the file unless its
\* first line is non-blank
ensure_csv_header_main(d) ==
    IF d.state = "file" /\ d.header # <<>> THEN d ELSE HeaderOnlyFile

\* the names in a list of columns
Names(columns) == {columns[i] : i \in DOMAIN columns}

\* pd.read_csv(dtype=str) reads an empty field as a missing value; a column
\* of CSV_COLUMNS the file does not have is added with empty strings
\* (df[col] = ""); the DateTime column is then converted with
\* astype(str).str.strip()
ReadRow(r) ==
    LET na == [c \in Names(CSV_COLUMNS) |->
                  IF c \in DOMAIN r
                  THEN IF r[c] = <<>> THEN NaN ELSE r[c]
                  ELSE <<>>]
    IN  [na EXCEPT !.DateTime = strip(astype_str(@))]

\* pd.read_csv raises: EmptyDataError for a file of zero bytes, a parser,
\* decoding or OS error for a file that cannot be read as CSV
read_csv_raises(d) ==
    d.state = "unreadable" \/ (d.header = <<>> /\ d.rows = <<>>)

\* a data line without a character: the one cell of a one-column row, empty
BlankLine(r) == Cardinality(DOMAIN r) = 1 /\ \A c \in DOMAIN r : r[c] = <<>>

\* the columns and the rows read_csv gives: blank lines are skipped, so
\* after a blank first line the first data row is taken as the header
read_csv(d) ==
    IF d.header = <<>>
    THEN [columns |-> <<>>,
          rows |-> [i \in 1..(Len(d.rows) - 1) |-> <<>>]]
    ELSE [columns |-> d.header,
          rows |-> SelectSeq(d.rows, LAMBDA r : ~BlankLine(r))]

\* the columns are returned as read and completed, without df[CSV_COLUMNS]
read_columns_unselected(d) ==
    IF d.state = "absent" \/ read_csv_raises(d) THEN CSV_COLUMNS
    ELSE LET on_disk == read_csv(d).columns
         IN  on_disk \o SelectSeq(CSV_COLUMNS, LAMBDA c : c \notin Names(on_disk))

\* the column list of the table read_existing_data returns: the columns
\* read, then the missing ones of CSV_COLUMNS, and of these df[CSV_COLUMNS]
read_columns(d) ==
    IF d.state = "absent" \/ read_csv_raises(d) THEN CSV_COLUMNS
    ELSE LET on_disk == read_csv(d).columns
             completed == on_disk \o SelectSeq(CSV_COLUMNS,
                                               LAMBDA c : c \notin Names(on_disk))
         IN  SelectSeq(CSV_COLUMNS, LAMBDA c : c \in Names(completed))

\* read_existing_data: an absent file gives an empty table, and so does
\* every exception of the body, which the except clause catches
read_existing_data(d) ==
    IF d.state = "absent" THEN <<>>
    ELSE IF read_csv_raises(d) THEN <<>>
    ELSE [i \in DOMAIN read_csv(d).rows |-> ReadRow(read_csv(d).rows[i])]

(***************************************************************************)
(* scrape_range_pandas: the per-day range scraper.                         *)
(***************************************************************************)
Init ==
    /\ disk = AbsentFile
    /\ existing_df = <<>>
    /\ df_new = <<>>
    /\ merged_df = <<>>
    /\ raised = FALSE
    /\ pc = "idle"
    /\ current_day = 0
    /\ to_date = 0
    /\ scrape_details = FALSE
    /\ writer = "none"
    /\ call_args = <<>>
    /\ call_result = <<>>
    /\ other_run = <<>>

\* the process is gone: nothing but the file is left
Forget ==
    /\ existing_df' = <<>>
    /\ df_new' = <<>>
    /\ merged_df' = <<>>
    /\ raised' = FALSE
    /\ current_day' = 0
    /\ to_date' = 0
    /\ scrape_details' = FALSE

\* ensure_csv_header(output_csv); existing_df = read_existing_data(output_csv)
StartRun(from_date, to, details) ==
    /\ pc = "idle"
    /\ disk' = ensure_csv_header(disk)
    /\ writer' = IF disk' # disk THEN "ensure_csv_header" ELSE writer
    /\ existing_df' = read_existing_data(disk')
    /\ df_new' = <<>>
    /\ merged_df' = <<>>
    /\ raised' = FALSE
    /\ current_day' = from_date
    /\ to_date' = to
    /\ scrape_details' = details
    /\ pc' = "fetch"
    /\ UNCHANGED <<call_args, call_result, other_run>>

\* the day loop reads the store again before it merges the day's batch
ScrapeDayRereading(page) ==
    /\ pc = "fetch"
    /\ current_day <= to_date
    /\ Len(read_existing_data(disk)) + Len(page) <= MaxStore
    /\ LET on_disk == read_existing_data(disk)
           batch == parse_calendar_day(page, DayStart(current_day),
                                       scrape_details, on_disk)
           r == merge_new_data(on_disk, batch)
       IN  /\ df_new' = batch
           /\ IF Empty(batch)
              THEN /\ current_day' = current_day + 1
                   /\ pc' = "fetch"
                   /\ UNCHANGED <<existing_df, merged_df, raised>>
              ELSE IF r.ok
              THEN /\ merged_df' = r.df
                   /\ existing_df' = r.df
                   /\ pc' = "day_write"
                   /\ UNCHANGED <<current_day, raised>>
              ELSE /\ raised' = TRUE
                   /\ pc' = "final"
                   /\ UNCHANGED <<existing_df, merged_df, current_day>>
    /\ UNCHANGED <<disk, to_date, scrape_details, writer>>
    /\ UNCHANGED <<call_args, call_result, other_run>>

\* one pass of the day loop up to the write: scrape_day, and for a batch
\* with rows merge_new_data and existing_df = merged_df
ScrapeDay(page) ==
    /\ pc = "fetch"
    /\ current_day <= to_date
    /\ Len(existing_df) + Len(page) <= MaxStore
    /\ LET batch == parse_calendar_day(page, DayStart(current_day),
                                       scrape_details, existing_df)
           r == merge_new_data(existing_df, batch)
       IN  /\ df_new' = batch
           /\ IF Empty(batch)
              THEN /\ current_day' = current_day + 1
                   /\ pc' = "fetch"
                   /\ UNCHANGED <<existing_df, merged_df, raised>>
              ELSE IF r.ok
              THEN /\ merged_df' = r.df
                   /\ existing_df' = r.df
                   /\ pc' = "day_write"
                   /\ UNCHANGED <<current_day, raised>>
              ELSE /\ raised' = TRUE
                   /\ pc' = "final"
                   /\ UNCHANGED <<existing_df, merged_df, current_day>>
    /\ UNCHANGED <<disk, to_date, scrape_details, writer>>
    /\ UNCHANGED <<call_args, call_result, other_run>>

\* the page does not load within the wait: parse_calendar_day returns an
\* empty table
ScrapeDayTimeout ==
    /\ pc = "fetch"
    /\ current_day <= to_date
    /\ df_new' = <<>>
    /\ current_day' = current_day + 1
    /\ UNCHANGED <<disk, existing_df, merged_df, raised, pc, to_date,
                   scrape_details, writer>>
    /\ UNCHANGED <<call_args, call_result, other_run>>

\* the browser raises in scrape_day: the except clause ends the day loop
ScrapeDayError ==
    /\ pc = "fetch"
    /\ current_day <= to_date
    /\ pc' = "final"
    /\ UNCHANGED <<disk, existing_df, df_new, merged_df, raised, current_day,
                   to_date, scrape_details, writer>>
    /\ UNCHANGED <<call_args, call_result, other_run>>

\* while current_day <= to_date is false
LoopExit ==
    /\ pc = "fetch"
    /\ current_day > to_date
    /\ pc' = "final"
    /\ UNCHANGED <<disk, existing_df, df_new, merged_df, raised, current_day,
                   to_date, scrape_details, writer>>
    /\ UNCHANGED <<call_args, call_result, other_run>>

\* write_data_to_csv in the day loop opens the file for writing
DayWriteOpen ==
    /\ pc = "day_write"
    /\ disk' = TruncatedFile
    /\ writer' = "write_data_to_csv"
    /\ pc' = "day_flush"
    /\ UNCHANGED <<existing_df, df_new, merged_df, raised, current_day,
                   to_date, scrape_details>>
    /\ UNCHANGED <<call_args, call_result, other_run>>

\* ... and writes the table; current_day += timedelta(days=1)
DayWriteFlush ==
    /\ pc = "day_flush"
    /\ disk' = write_data_to_csv(existing_df)
    /\ writer' = "write_data_to_csv"
    /\ current_day' = current_day + 1
    /\ pc' = "fetch"
    /\ UNCHANGED <<existing_df, df_new, merged_df, raised, to_date,
                   scrape_details>>
    /\ UNCHANGED <<call_args, call_result, other_run>>

\* the final save: if not existing_df.empty, write_data_to_csv opens the file
FinalWriteOpen ==
    /\ pc = "final"
    /\ ~Empty(existing_df)
    /\ disk' = TruncatedFile
    /\ writer' = "write_data_to_csv"
    /\ pc' = "final_flush"
    /\ UNCHANGED <<existing_df, df_new, merged_df, raised, current_day,
                   to_date, scrape_details>>
    /\ UNCHANGED <<call_args, call_result, other_run>>

FinalWriteFlush ==
    /\ pc = "final_flush"
    /\ disk' = write_data_to_csv(existing_df)
    /\ writer' = "write_data_to_csv"
    /\ pc' = "idle"
    /\ Forget
    /\ UNCHANGED <<call_args, call_result, other_run>>

\* the final save has nothing to write
FinalSkip ==
    /\ pc = "final"
    /\ Empty(existing_df)
    /\ pc' = "idle"
    /\ Forget
    /\ UNCHANGED <<disk, writer>>
    /\ UNCHANGED <<call_args, call_result, other_run>>

\* the process is interrupted
Crash ==
    /\ pc # "idle"
    /\ pc' = "idle"
    /\ Forget
    /\ UNCHANGED <<disk, writer>>
    /\ UNCHANGED <<call_args, call_result, other_run>>

(***************************************************************************)
(* scrape_range_with_details of ffs.py: the month-by-month scraper, for a  *)
(* window inside one month.                                                *)
(***************************************************************************)
\* an event row of the month page, under the day-breaker of day d
MonthRawRows == {[day |-> d, raw |-> raw] : d \in 1..MaxDay, raw \in RawRows}

\* the record parse_calendar_page_with_details writes for an event row
MonthRecord(m) ==
    Row(isoformat(parse_event_time(m.raw.time, DayStart(m.day))),
        strip(m.raw.currency), m.raw.impact, strip(m.raw.event),
        strip(m.raw.actual), strip(m.raw.forecast), strip(m.raw.previous),
        m.raw.panel)

\* if current_day < start_date or current_day > end_date: continue
RECURSIVE InWindow(_, _, _)
InWindow(page, start_date, end_date) ==
    IF page = <<>> THEN <<>>
    ELSE IF Head(page).day < start_date \/ Head(page).day > end_date
    THEN InWindow(Tail(page), start_date, end_date)
    ELSE <<MonthRecord(Head(page))>> \o InWindow(Tail(page), start_date, end_date)

\* ensure_csv_header(output_csv) of ffs.py, then the browser is started
StartMonthRun(start_date, end_date) ==
    /\ pc = "idle"
    /\ disk' = ensure_csv_header_main(disk)
    /\ writer' = IF disk' # disk THEN "ensure_csv_header" ELSE writer
    /\ current_day' = start_date
    /\ to_date' = end_date
    /\ pc' = "month_get"
    /\ UNCHANGED <<existing_df, df_new, merged_df, raised, scrape_details>>
    /\ UNCHANGED <<call_args, call_result, other_run>>

\* driver.get(url) and the rows parse_calendar_page_with_details will write
MonthPage(page) ==
    /\ pc = "month_get"
    /\ Len(disk.rows) + Len(page) <= MaxStore
    /\ df_new' = InWindow(page, current_day, to_date)
    /\ pc' = "month_rows"
    /\ UNCHANGED <<disk, existing_df, merged_df, raised, current_day, to_date,
                   scrape_details, writer>>
    /\ UNCHANGED <<call_args, call_result, other_run>>

\* with open(output_csv, "a") ...: writer.writerow([...]) for the next row
MonthAppendRow ==
    /\ pc = "month_rows"
    /\ df_new # <<>>
    /\ disk' = [disk EXCEPT !.rows = Append(@, ToCsvRow(Head(df_new)))]
    /\ writer' = "append"
    /\ df_new' = Tail(df_new)
    /\ UNCHANGED <<existing_df, merged_df, raised, pc, current_day, to_date,
                   scrape_details>>
    /\ UNCHANGED <<call_args, call_result, other_run>>

\* all rows written: the month loop ends and the driver is quit
MonthDone ==
    /\ pc = "month_rows"
    /\ df_new = <<>>
    /\ pc' = "idle"
    /\ Forget
    /\ UNCHANGED <<disk, writer>>
    /\ UNCHANGED <<call_args, call_result, other_run>>

Next ==
    \/ \E f, t \in 1..MaxDay, details \in BOOLEAN : StartRun(f, t, details)
    \/ \E page \in SeqsUpTo(RawRows, MaxBatch) : ScrapeDay(page)
    \/ ScrapeDayTimeout
    \/ ScrapeDayError
    \/ LoopExit
    \/ DayWriteOpen
    \/ DayWriteFlush
    \/ FinalWriteOpen
    \/ FinalWriteFlush
    \/ FinalSkip
    \/ Crash
    \/ \E f, t \in 1..MaxDay : StartMonthRun(f, t)
    \/ \E page \in SeqsUpTo(MonthRawRows, MaxBatch) : MonthPage(page)
    \/ MonthAppendRow
    \/ MonthDone

Spec == Init /\ [][Next]_vars

(***************************************************************************)
(* Claims about merge_new_data, checked under SpecMerge.                   *)
(***************************************************************************)
Returned == pc \in {"merged", "merged_again"}

NonBlank(v) == DetailText(v) # <<>>

\* C1: identity uniqueness.  Whenever merge_new_data returns for an existing
\* table without duplicate identity keys, the returned table has no two
\* records with the same trimmed (DateTime, Currency, Event).
C1_IdentityUniqueness ==
    (Returned /\ NoDupIdentity(existing_df)) => NoDupIdentity(merged_df)

\* C2: Detail monotonicity.  Every record of the existing table whose Detail
\* is non-blank is at the same position of the merged table with the same
\* Detail and the same identity; a sequence of merges is a sequence of such
\* steps, each started from the previous result.
C2_DetailMonotonicity ==
    Returned =>
        \A i \in DOMAIN existing_df :
            NonBlank(existing_df[i].Detail) =>
                /\ i \in DOMAIN merged_df
                /\ merged_df[i].Detail = existing_df[i].Detail
                /\ Identity(merged_df[i]) = Identity(existing_df[i])

\* a merge has re-observed a record with a non-blank Detail, once with a
\* different non-blank Detail and once with a blank one
C2_Witness ==
    /\ pc = "merged"
    /\ \E i \in DOMAIN existing_df :
        /\ NonBlank(existing_df[i].Detail)
        /\ \E j, k \in DOMAIN df_new :
            /\ unique_key(df_new[j]) = unique_key(existing_df[i])
            /\ unique_key(df_new[k]) = unique_key(existing_df[i])
            /\ NonBlank(df_new[j].Detail)
            /\ DetailText(df_new[j].Detail) # DetailText(existing_df[i].Detail)
            /\ ~NonBlank(df_new[k].Detail)

\* C4: idempotence.  Merging the same batch into the result of a merge
\* returns, and returns that result unchanged.
C4_MergeIdempotent ==
    pc \in {"merged_again", "raised_again"} =>
        (~raised /\ merged_df = existing_df)

\* C6: non-identity immutability.  Every record of the existing table keeps
\* its Impact, Actual, Forecast and Previous in the merged table.
C6_NonIdentityImmutable ==
    Returned =>
        \A i \in DOMAIN existing_df :
            /\ i \in DOMAIN merged_df
            /\ merged_df[i].Impact = existing_df[i].Impact
            /\ merged_df[i].Actual = existing_df[i].Actual
            /\ merged_df[i].Forecast = existing_df[i].Forecast
            /\ merged_df[i].Previous = existing_df[i].Previous

\* a merge has re-observed a record with a blank Detail, the new record
\* carrying a Detail and other Impact, Actual, Forecast and Previous
C6_Witness ==
    /\ pc = "merged"
    /\ \E i \in DOMAIN existing_df, j \in DOMAIN df_new :
        /\ unique_key(df_new[j]) = unique_key(existing_df[i])
        /\ ~NonBlank(existing_df[i].Detail)
        /\ NonBlank(df_new[j].Detail)
        /\ merged_df[i].Detail = DetailText(df_new[j].Detail)
        /\ df_new[j].Impact # existing_df[i].Impact
        /\ df_new[j].Actual # existing_df[i].Actual
        /\ df_new[j].Forecast # existing_df[i].Forecast
        /\ df_new[j].Previous # existing_df[i].Previous

\* the records of the batch whose trimmed triple is the triple of no record
\* of the existing table
NewByIdentity ==
    {j \in DOMAIN df_new :
        \A i \in DOMAIN existing_df :
            Identity(existing_df[i]) # Identity(df_new[j])}

\* C7: identity is exactly the trimmed triple.  The records the merge adds
\* to the existing table are exactly the batch records whose trimmed
\* (DateTime, Currency, Event) is the triple of no existing record; every
\* other batch record is treated as a re-observation.
C7_IdentityIsTrimmedTriple ==
    pc = "merged" =>
        Len(merged_df) = Len(existing_df) + Cardinality(NewByIdentity)

(***************************************************************************)
(* write_data_to_csv on its own: applied to every table within the bounds. *)
(***************************************************************************)
\* the same wall-clock time under another UTC offset, and the next day
T2 == isoformat(DateTimeOf(2025, 1, 5, 10, 30, 0, 0))
T3 == isoformat(DateTimeOf(2025, 1, 6, 10, 30, 0, 210))

SortRows ==
    { Row(t, <<"A">>, <<"L">>, <<"C">>, <<>>, <<>>, <<>>, d) :
        t \in {T1, T2, T3}, d \in {<<>>, <<"d">>} }

InitWrite ==
    /\ existing_df \in SeqsUpTo(SortRows, MaxSort)
    /\ df_new = <<>>
    /\ merged_df = <<>>
    /\ raised = FALSE
    /\ pc = "write"
    /\ disk = AbsentFile
    /\ current_day = 0
    /\ to_date = 0
    /\ scrape_details = FALSE
    /\ writer = "none"
    /\ call_args = <<>>
    /\ call_result = <<>>
    /\ other_run = <<>>

\* write_data_to_csv(existing_df, output_csv), run to its end
CallWrite ==
    /\ pc = "write"
    /\ disk' = write_data_to_csv(existing_df)
    /\ writer' = "write_data_to_csv"
    /\ pc' = "written"
    /\ UNCHANGED <<existing_df, df_new, merged_df, raised, current_day,
                   to_date, scrape_details>>
    /\ UNCHANGED <<call_args, call_result, other_run>>

NextWrite == CallWrite

SpecWrite == InitWrite /\ [][NextWrite]_vars

\* C9: sorted store.  The file write_data_to_csv leaves has the header first
\* and its data rows in non-decreasing order of the instant their DateTime
\* denotes.
C9_SortedByInstant ==
    pc = "written" =>
        /\ disk.header = CSV_COLUMNS
        /\ \A i, j \in DOMAIN disk.rows :
            i < j => Instant(disk.rows[i].DateTime) <= Instant(disk.rows[j].DateTime)

(***************************************************************************)
(* Claims about the scraping entry points, checked under Spec.             *)
(***************************************************************************)
\* how often record r occurs in table t
Count(t, r) == Cardinality({i \in DOMAIN t : t[i] = r})

\* the two tables hold the same records, each as often
SameRecords(a, b) ==
    /\ Len(a) = Len(b)
    /\ \A i \in DOMAIN a : Count(a, a[i]) = Count(b, a[i])

\* table t with every Detail left out
WithoutDetail(t) == [i \in DOMAIN t |-> [t[i] EXCEPT !.Detail = <<>>]]

\* the data rows of the store: those of the file, or, while write_data_to_csv
\* is between opening the file and writing it, those it is writing
StoreRows ==
    IF pc \in {"day_flush", "final_flush"} THEN ToCsv(existing_df) ELSE disk.rows

\* C3: no loss of collected data.  In every step (a fetch that times out or
\* raises, the start of a run, an interruption, a write) every record of the
\* store with a non-blank Detail is a record of the store afterwards, with
\* that Detail.
C3_NoLossOfCollectedDetail ==
    [][\A i \in DOMAIN StoreRows :
          NonBlank(StoreRows[i].Detail) =>
              \E j \in DOMAIN StoreRows' :
                  /\ Identity(StoreRows'[j]) = Identity(StoreRows[i])
                  /\ StoreRows'[j].Detail = StoreRows[i].Detail]_vars

\* C5: re-scraping is a no-op.  When the store was last written by
\* write_data_to_csv and the day's batch holds only rows that are in the
\* store already (Detail aside), the table the day loop is about to write
\* holds the records of the store, each as often, no Detail of the store
\* changed except a blank one.
C5_RescrapeIsNoOp ==
    (/\ pc = "day_write"
     /\ writer = "write_data_to_csv"
     /\ \A j \in DOMAIN df_new :
            \E i \in DOMAIN disk.rows :
                WithoutDetail(ToCsv(df_new))[j] = WithoutDetail(disk.rows)[i])
    => /\ SameRecords(WithoutDetail(ToCsv(existing_df)), WithoutDetail(disk.rows))
       /\ \A i \in DOMAIN disk.rows :
              NonBlank(disk.rows[i].Detail) =>
                  Count(ToCsv(existing_df), disk.rows[i]) = Count(disk.rows, disk.rows[i])

\* C8: single write path.  Every step that changes the data rows of the
\* store is made by write_data_to_csv.
C8_SingleWritePath ==
    [][disk'.rows # disk.rows => writer' = "write_data_to_csv"]_vars

\* C10: persist after every unit.  Whenever the day loop is about to fetch
\* the next day (or to leave the loop), the file holds the records of the
\* in-memory merged table, each as often, under the header row when the day
\* before had rows.
C10_PersistAfterEveryUnit ==
    pc = "fetch" =>
        /\ SameRecords(ToCsv(existing_df), disk.rows)
        /\ df_new # <<>> => disk.header = CSV_COLUMNS

\* the day loop has merged and written a day with rows, which added to the
\* rows read at the start of the run, and is about to fetch the next day
C10_Witness ==
    /\ pc = "fetch"
    /\ current_day <= to_date
    /\ df_new # <<>>
    /\ Len(existing_df) > Len(df_new)
    /\ \A j \in DOMAIN df_new : Count(disk.rows, ToCsvRow(df_new[j])) > 0

(***************************************************************************)
(* _parse_event_time on its own: applied to label texts and reference      *)
(* days.                                                                   *)
(***************************************************************************)
\* "2:15pm", "12:00am", "12:30pm", "2:15PM", "All Day", "No Data", "abc",
\* "", "Day 1 data", "9:05amx", "123:45am", "1:5am", "2:15 pm", "24:00am",
\* "10:75am", "13:00pm", "25:00am day"
TimeLabels ==
    { <<"2", ":", "1", "5", "p", "m">>,
      <<"1", "2", ":", "0", "0", "a", "m">>,
      <<"1", "2", ":", "3", "0", "p", "m">>,
      <<"2", ":", "1", "5", "P", "M">>,
      <<"A", "l", "l", " ", "D", "a", "y">>,
      <<"N", "o", " ", "D", "a", "t", "a">>,
      <<"a", "b", "c">>,
      <<>>,
      <<"D", "a", "y", " ", "1", " ", "d", "a", "t", "a">>,
      <<"9", ":", "0", "5", "a", "m", "x">>,
      <<"1", "2", "3", ":", "4", "5", "a", "m">>,
      <<"1", ":", "5", "a", "m">>,
      <<"2", ":", "1", "5", " ", "p", "m">>,
      <<"2", "4", ":", "0", "0", "a", "m">>,
      <<"1", "0", ":", "7", "5", "a", "m">>,
      <<"1", "3", ":", "0", "0", "p", "m">>,
      <<"2", "5", ":", "0", "0", "a", "m", " ", "d", "a", "y">> }

\* midnight of a day of January 2025, in Asia/Tehran or in UTC
ReferenceDays ==
    { DateTimeOf(2025, 1, d, 0, 0, 0, off) : d \in 1..MaxDay, off \in {210, 0} }

InitTime ==
    /\ call_args \in [time_text : TimeLabels, current_day : ReferenceDays]
    /\ call_result = <<>>
    /\ other_run = <<>>
    /\ pc = "call_time"
    /\ disk = AbsentFile
    /\ existing_df = <<>>
    /\ df_new = <<>>
    /\ merged_df = <<>>
    /\ raised = FALSE
    /\ current_day = 0
    /\ to_date = 0
    /\ scrape_details = FALSE
    /\ writer = "none"

\* event_dt = _parse_event_time(time_text, current_day)
CallParseEventTime ==
    /\ pc = "call_time"
    /\ LET event_dt == parse_event_time(ReadLabel(call_args.time_text),
                                        call_args.current_day)
       IN  call_result' = IF ValidTime(event_dt)
                          THEN [raised |-> FALSE, value |-> event_dt]
                          ELSE [raised |-> TRUE, value |-> <<>>]
    /\ pc' = "parsed"
    /\ UNCHANGED <<disk, existing_df, df_new, merged_df, raised, current_day,
                   to_date, scrape_details, writer, call_args, other_run>>

NextTime == CallParseEventTime

SpecTime == InitTime /\ [][NextTime]_vars

\* the time of day the four rules give for the labels they decide:
\* <<label, hour, minute, second>>
ResolverTable ==
    { << <<"2", ":", "1", "5", "p", "m">>, 14, 15, 0 >>,
      << <<"1", "2", ":", "0", "0", "a", "m">>, 0, 0, 0 >>,
      << <<"1", "2", ":", "3", "0", "p", "m">>, 12, 30, 0 >>,
      << <<"2", ":", "1", "5", "P", "M">>, 14, 15, 0 >>,
      << <<"A", "l", "l", " ", "D", "a", "y">>, 23, 59, 59 >>,
      << <<"N", "o", " ", "D", "a", "t", "a">>, 0, 0, 1 >>,
      << <<"a", "b", "c">>, 0, 0, 0 >>,
      << <<>>, 0, 0, 0 >>,
      << <<"D", "a", "y", " ", "1", " ", "d", "a", "t", "a">>, 23, 59, 59 >>,
      << <<"9", ":", "0", "5", "a", "m", "x">>, 9, 5, 0 >>,
      << <<"1", "2", "3", ":", "4", "5", "a", "m">>, 0, 0, 0 >>,
      << <<"1", ":", "5", "a", "m">>, 0, 0, 0 >>,
      << <<"2", ":", "1", "5", " ", "p", "m">>, 0, 0, 0 >>,
      << <<"1", "3", ":", "0", "0", "p", "m">>, 13, 0, 0 >>,
      << <<"2", "5", ":", "0", "0", "a", "m", " ", "d", "a", "y">>, 23, 59, 59 >> }

C19_ResolverNeverRaises ==
    pc = "parsed" => ~call_result.raised

(***************************************************************************)
(* detail_data_to_string (detail_parser.py and ffs.py) on its own: applied *)
(* to every mapping within the bounds.  A mapping (dict) is the sequence   *)
(* of its <<name, description>> pairs in insertion order, names distinct.  *)
(***************************************************************************)
\* re.sub(r'\s+', ' ', s)
RECURSIVE collapse_whitespace(_)
collapse_whitespace(s) ==
    IF s = <<>> THEN <<>>
    ELSE IF IsSpace(Head(s)) THEN <<" ">> \o collapse_whitespace(lstrip(s))
    ELSE <<Head(s)>> \o collapse_whitespace(Tail(s))

\* s.replace('\n', ' ').replace('\r', ' ')
replace_newlines(s) ==
    [i \in DOMAIN s |-> IF s[i] \in {"\n", "\r"} THEN " " ELSE s[i]]

\* sep.join(parts)
RECURSIVE join(_, _)
join(sep, parts) ==
    IF parts = <<>> THEN <<>>
    ELSE IF Len(parts) = 1 THEN parts[1]
    ELSE parts[1] \o sep \o join(sep, Tail(parts))

\* detail_parser.detail_data_to_string
detail_data_to_string(detail_data) ==
    join(<<" ", "|", " ">>,
         [i \in DOMAIN detail_data |->
             strip(collapse_whitespace(detail_data[i][1])) \o <<":", " ">>
             \o strip(collapse_whitespace(detail_data[i][2]))])

\* ffs.detail_data_to_string
detail_data_to_string_ffs(detail_data) ==
    join(<<" ", "|", " ">>,
         [i \in DOMAIN detail_data |->
             replace_newlines(detail_data[i][1]) \o <<":", " ">>
             \o replace_newlines(detail_data[i][2])])

\* "a", "b c", "a  b", " a", "a\tb", "a\n", ""
DetailTexts ==
    { <<"a">>, <<"b", " ", "c">>, <<"a", " ", " ", "b">>, <<" ", "a">>,
      <<"a", "\t", "b">>, <<"a", "\n">>, <<>> }

DetailMaps ==
    { m \in SeqsUpTo(DetailTexts \X DetailTexts, MaxPairs) :
        \A i, j \in DOMAIN m : i # j => m[i][1] # m[j][1] }

InitDetail ==
    /\ call_args \in [module : {"detail_parser", "ffs"}, detail_data : DetailMaps]
    /\ call_result = <<>>
    /\ other_run = <<>>
    /\ pc = "call_detail"
    /\ disk = AbsentFile
    /\ existing_df = <<>>
    /\ df_new = <<>>
    /\ merged_df = <<>>
    /\ raised = FALSE
    /\ current_day = 0
    /\ to_date = 0
    /\ scrape_details = FALSE
    /\ writer = "none"

\* detail_str = detail_data_to_string(detail_data)
CallDetailDataToString ==
    /\ pc = "call_detail"
    /\ call_result' = IF call_args.module = "detail_parser"
                      THEN detail_data_to_string(call_args.detail_data)
                      ELSE detail_data_to_string_ffs(call_args.detail_data)
    /\ pc' = "encoded"
    /\ UNCHANGED <<disk, existing_df, df_new, merged_df, raised, current_day,
                   to_date, scrape_details, writer, call_args, other_run>>

NextDetail == CallDetailDataToString

SpecDetail == InitDetail /\ [][NextDetail]_vars

\* the words of a text: its maximal runs of characters that are not
\* whitespace
RECURSIVE Words(_)
Words(s) ==
    LET t == lstrip(s)
    IN  IF t = <<>> THEN <<>>
        ELSE LET n == CHOOSE i \in 1..(Len(t) + 1) :
                          /\ i = Len(t) + 1 \/ IsSpace(t[i])
                          /\ \A k \in 1..(i - 1) : ~IsSpace(t[k])
             IN  <<SubSeq(t, 1, n - 1)>> \o Words(SubSeq(t, n, Len(t)))

\* a text with every run of whitespace made one space and no whitespace at
\* its ends: its words, one space between them
Cleaned(s) == join(<<" ">>, Words(s))

\* C20: Detail Encoder output.  detail_data_to_string returns the pairs in
\* insertion order, each as "name: description" with every run of
\* whitespace made one space and the ends trimmed, joined by " | "; the
\* empty mapping gives the empty text; the output has no newline or tab.
C20_DetailEncoderOutput ==
    pc = "encoded" =>
        /\ call_result =
               join(<<" ", "|", " ">>,
                    [i \in DOMAIN call_args.detail_data |->
                        Cleaned(call_args.detail_data[i][1]) \o <<":", " ">>
                        \o Cleaned(call_args.detail_data[i][2])])
        /\ call_args.detail_data = <<>> => call_result = <<>>
        /\ \A i \in DOMAIN call_result : call_result[i] \notin {"\n", "\t", "\r"}

(***************************************************************************)
(* read_existing_data on its own: applied to every file within the bounds. *)
(***************************************************************************)
\* a file that exists and that pd.read_csv cannot read
UnreadableFile == [state |-> "unreadable", header |-> <<>>, rows |-> <<>>]

\* header lines: the eight columns, three of them, two of them in another
\* order with a column that is none of the eight, and only such a column
ReadHeaders ==
    { CSV_COLUMNS,
      <<"DateTime", "Currency", "Event">>,
      <<"Detail", "DateTime", "Extra">>,
      <<"Extra">> }

\* data rows under the header columns: every cell empty, "x", " x" or T1
RowsOver(columns) ==
    { [c \in Names(columns) |-> v] : v \in {<<>>, <<"x">>, <<" ", "x">>, T1} }

ReadFiles ==
    {AbsentFile, UnreadableFile}
    \cup UNION { { [state |-> "file", header |-> h, rows |-> rs] :
                        rs \in SeqsUpTo(RowsOver(h), MaxStore) } :
                    h \in ReadHeaders }
    \cup { [state |-> "file", header |-> <<>>, rows |-> rs] :
             rs \in SeqsUpTo(RowsOver(CSV_COLUMNS), MaxStore) }

InitRead ==
    /\ disk \in ReadFiles
    /\ call_args = <<>>
    /\ call_result = <<>>
    /\ other_run = <<>>
    /\ pc = "call_read"
    /\ existing_df = <<>>
    /\ df_new = <<>>
    /\ merged_df = <<>>
    /\ raised = FALSE
    /\ current_day = 0
    /\ to_date = 0
    /\ scrape_details = FALSE
    /\ writer = "none"

\* existing_df = read_existing_data(output_csv); call_result is the column
\* list of the table returned
CallReadExistingData ==
    /\ pc = "call_read"
    /\ existing_df' = read_existing_data(disk)
    /\ call_result' = read_columns(disk)
    /\ pc' = "read"
    /\ UNCHANGED <<disk, df_new, merged_df, raised, current_day, to_date,
                   scrape_details, writer, call_args, other_run>>

NextRead == CallReadExistingData

SpecRead == InitRead /\ [][NextRead]_vars

\* C16: read_existing_data never fails.  For a file that is absent, empty
\* or unreadable it returns an empty table; for every file the table has
\* exactly the eight columns in their order, every row has a value in each,
\* and a column missing on disk is filled with empty strings.
C16_ReadNeverFails ==
    pc = "read" =>
        /\ call_result = CSV_COLUMNS
        /\ \A i \in DOMAIN existing_df :
               DOMAIN existing_df[i] = Names(CSV_COLUMNS)
        /\ (disk.state # "file" \/ (disk.header = <<>> /\ disk.rows = <<>>))
               => existing_df = <<>>
        /\ (disk.state = "file" /\ disk.header # <<>>) =>
               \A i \in DOMAIN existing_df :
                   \A c \in Names(CSV_COLUMNS) \ Names(disk.header) :
                       existing_df[i][c] = <<>>

\* a file whose header lacks Impact and has a column that is none of the
\* eight was read: the row has an empty Impact and the Detail of the file
C16_Witness ==
    /\ pc = "read"
    /\ disk.state = "file"
    /\ disk.header = <<"Detail", "DateTime", "Extra">>
    /\ Len(existing_df) = 2
    /\ existing_df[1].Impact = <<>>
    /\ existing_df[1].Detail = <<"x">>

(***************************************************************************)
(* ensure_csv_header (csv_util.py, and main.py / ffs.py) on its own:       *)
(* applied to every file within the bounds, and then once more.            *)
(***************************************************************************)
\* the file is absent, or has a first line (the header, or a blank line,
\* header = <<>>) followed by data rows; no line at all is a file of zero
\* bytes
HeaderFiles ==
    {AbsentFile}
    \cup { [state |-> "file", header |-> h, rows |-> rs] :
             h \in {CSV_COLUMNS, <<>>}, rs \in SeqsUpTo(SortRows, MaxStore) }

InitHeader ==
    /\ disk \in HeaderFiles
    /\ call_args \in [module : {"csv_util", "main"}, before : {disk}]
    /\ call_result = <<>>
    /\ other_run = <<>>
    /\ pc = "call_ensure"
    /\ existing_df = <<>>
    /\ df_new = <<>>
    /\ merged_df = <<>>
    /\ raised = FALSE
    /\ current_day = 0
    /\ to_date = 0
    /\ scrape_details = FALSE
    /\ writer = "none"

\* ensure_csv_header(output_csv); call_result is the file it leaves
CallEnsureCsvHeader ==
    /\ pc = "call_ensure"
    /\ disk' = IF call_args.module = "csv_util"
               THEN ensure_csv_header(disk)
               ELSE ensure_csv_header_main(disk)
    /\ writer' = IF disk' # disk THEN "ensure_csv_header" ELSE writer
    /\ call_result' = disk'
    /\ pc' = "ensured"
    /\ UNCHANGED <<existing_df, df_new, merged_df, raised, current_day,
                   to_date, scrape_details, call_args, other_run>>

\* ensure_csv_header(output_csv), a second time
CallEnsureCsvHeaderAgain ==
    /\ pc = "ensured"
    /\ disk' = IF call_args.module = "csv_util"
               THEN ensure_csv_header(disk)
               ELSE ensure_csv_header_main(disk)
    /\ writer' = IF disk' # disk THEN "ensure_csv_header" ELSE writer
    /\ pc' = "ensured_again"
    /\ UNCHANGED <<existing_df, df_new, merged_df, raised, current_day,
                   to_date, scrape_details, call_args, call_result,
                   other_run>>

NextHeader == CallEnsureCsvHeader \/ CallEnsureCsvHeaderAgain

SpecHeader == InitHeader /\ [][NextHeader]_vars

\* C17: ensure_csv_header never truncates data.  For every state of the
\* file, the data rows present before the call are present after it, the
\* header is written only when the file was absent or empty, and a second
\* call changes nothing.
C17_EnsureHeaderKeepsData ==
    pc \in {"ensured", "ensured_again"} =>
        /\ disk.rows = call_args.before.rows
        /\ disk.header # call_args.before.header =>
               (call_args.before.state = "absent"
                \/ (call_args.before.header = <<>> /\ call_args.before.rows = <<>>))
        /\ pc = "ensured_again" => disk = call_result

\* C14: a failed unit does not abort the run.  A step of the day loop that
\* fetches a day and neither hands rows to the write nor has merge_new_data
\* raise leaves the store and the table as they were and goes on to the
\* next day.
C14_FailedUnitDoesNotAbort ==
    [][(/\ pc = "fetch"
        /\ current_day <= to_date
        /\ pc' \in {"fetch", "final"}
        /\ ~raised')
       => (/\ pc' = "fetch"
           /\ current_day' = current_day + 1
           /\ disk' = disk
           /\ existing_df' = existing_df)]_vars

(***************************************************************************)
(* Two runs of scrape_range_pandas against the same store file.  The       *)
(* variables of a run hold the run that is scheduled, other_run the run    *)
(* that waits.                                                             *)
(***************************************************************************)
RunState ==
    [existing_df |-> existing_df, df_new |-> df_new, merged_df |-> merged_df,
     raised |-> raised, pc |-> pc, current_day |-> current_day,
     to_date |-> to_date, scrape_details |-> scrape_details]

\* a run that has not started
IdleRun ==
    [existing_df |-> <<>>, df_new |-> <<>>, merged_df |-> <<>>,
     raised |-> FALSE, pc |-> "idle", current_day |-> 0, to_date |-> 0,
     scrape_details |-> FALSE]

InitTwo ==
    /\ disk = AbsentFile
    /\ existing_df = <<>>
    /\ df_new = <<>>
    /\ merged_df = <<>>
    /\ raised = FALSE
    /\ pc = "idle"
    /\ current_day = 0
    /\ to_date = 0
    /\ scrape_details = FALSE
    /\ writer = "none"
    /\ call_args = <<>>
    /\ call_result = <<>>
    /\ other_run = IdleRun

\* the scheduler passes from one run to the other
Switch ==
    /\ other_run' = RunState
    /\ existing_df' = other_run.existing_df
    /\ df_new' = other_run.df_new
    /\ merged_df' = other_run.merged_df
    /\ raised' = other_run.raised
    /\ pc' = other_run.pc
    /\ current_day' = other_run.current_day
    /\ to_date' = other_run.to_date
    /\ scrape_details' = other_run.scrape_details
    /\ UNCHANGED <<disk, writer, call_args, call_result>>

\* a run starts while the store has no data rows, without details
StartRunOnEmptyStore(from_date, to) ==
    /\ disk.rows = <<>>
    /\ StartRun(from_date, to, FALSE)

\* every page the runs fetch has at most one row
NextTwo ==
    \/ \E f, t \in 1..MaxDay : StartRunOnEmptyStore(f, t)
    \/ \E page \in SeqsUpTo(RawRows, 1) : ScrapeDay(page)
    \/ LoopExit
    \/ DayWriteOpen
    \/ DayWriteFlush
    \/ FinalWriteOpen
    \/ FinalWriteFlush
    \/ FinalSkip
    \/ Switch

SpecTwo == InitTwo /\ [][NextTwo]_vars

\* C15: no protection against a second writer.  A run reads the store once,
\* at its start: in every step of a run after that, the rows of its table
\* are rows it had or rows of the batch it has just fetched (a blank Detail
\* filled aside), whatever the other run has written to the file.
C15_StoreReadOnceAtStart ==
    [][(other_run' = other_run /\ pc # "idle")
       => \A i \in DOMAIN existing_df' :
              \E t \in {existing_df, df_new'} :
                  \E j \in DOMAIN t :
                      WithoutDetail(existing_df')[i] = WithoutDetail(t)[j]]_vars

\* the run that waits has fetched a row and written it, and the file, just
\* rewritten by the scheduled run, does not hold that row
C15_Witness ==
    /\ pc = "fetch"
    /\ writer = "write_data_to_csv"
    /\ df_new # <<>>
    /\ disk.rows = ToCsv(existing_df)
    /\ other_run.pc = "fetch"
    /\ other_run.df_new # <<>>
    /\ \E j \in DOMAIN other_run.df_new :
           /\ Count(ToCsv(other_run.existing_df), ToCsvRow(other_run.df_new[j])) > 0
           /\ Count(disk.rows, ToCsvRow(other_run.df_new[j])) = 0

(***************************************************************************)
(* scrape_incremental: the incremental scraper, for windows inside January *)
(* 2025.  call_args is the window requested by the run last started,       *)
(* call_result what that run has done so far.                              *)
(***************************************************************************)
\* datetime.fromisoformat of a DateTime text; found is FALSE when the text
\* is not a timestamp
ParseDateTime(s) ==
    IF Len(s) = 25 /\ s # NaN
    THEN [found |-> TRUE,
          value |-> DateTimeOf(Num(s, 1, 4), Num(s, 6, 7), Num(s, 9, 10),
                               Num(s, 12, 13), Num(s, 15, 16), Num(s, 18, 19),
                               (IF s[20] = "-" THEN -1 ELSE 1)
                                   * (Num(s, 21, 22) * 60 + Num(s, 24, 25)))]
    ELSE [found |-> FALSE, value |-> DayStart(0)]

\* get_last_datetime_from_csv: the DateTime of the final data row; None
\* (found = FALSE) when the file has no data row or the field does not parse
get_last_datetime_from_csv(d) ==
    IF d.state # "file" \/ d.rows = <<>>
    THEN [found |-> FALSE, value |-> DayStart(0)]
    ELSE ParseDateTime(d.rows[Len(d.rows)].DateTime)

\* a <= b for timezone-aware datetimes: the instants are compared
DateTimeLeq(a, b) == Instant(isoformat(a)) <= Instant(isoformat(b))

\* the test is made the other way round: to_date >= last_dt
no_need_to_scrape_swapped(last_dt, to) ==
    last_dt.found /\ DateTimeLeq(last_dt.value, to)

\* if last_dt is not None: if last_dt >= to_date: return
no_need_to_scrape(last_dt, to) ==
    last_dt.found /\ DateTimeLeq(to, last_dt.value)

\* real_start = max(last_dt + timedelta(days=1), from_date), or from_date
\* when last_dt is None
real_start(last_dt, from_date) ==
    IF ~last_dt.found THEN from_date
    ELSE LET next_day == [last_dt.value EXCEPT !.day = @ + 1]
         IN  IF DateTimeLeq(from_date, next_day) THEN next_day ELSE from_date

\* the rows parse_calendar_page_with_details writes for a page: an event
\* row is skipped when the midnight of its day-breaker is before start_date
\* or after end_date
RECURSIVE InWindowOf(_, _, _)
InWindowOf(page, start_date, end_date) ==
    IF page = <<>> THEN <<>>
    ELSE IF \/ ~DateTimeLeq(start_date, DayStart(Head(page).day))
            \/ ~DateTimeLeq(DayStart(Head(page).day), end_date)
    THEN InWindowOf(Tail(page), start_date, end_date)
    ELSE <<MonthRecord(Head(page))>> \o InWindowOf(Tail(page), start_date, end_date)

\* the calendar the site shows for the month: on every day an event with
\* an empty time cell, a release at 10:30am and an all-day event
RECURSIVE Calendar(_)
Calendar(last_day) ==
    IF last_day = 0 THEN <<>>
    ELSE Calendar(last_day - 1)
         \o << [day |-> last_day,
                raw |-> RawRow(Label(FALSE, FALSE, <<>>),
                               <<"J", "P", "Y">>, <<"L">>, <<"A">>,
                               <<>>, <<>>, <<>>, <<>>)],
               [day |-> last_day,
                raw |-> RawRow(Label(FALSE, FALSE, <<10, 30, "am">>),
                               <<"U", "S", "D">>, <<"H">>, <<"C", "P", "I">>,
                               <<>>, <<"1">>, <<>>, <<"d">>)],
               [day |-> last_day,
                raw |-> RawRow(Label(TRUE, FALSE, <<>>),
                               <<"E", "U", "R">>, <<"L">>, <<"B">>,
                               <<>>, <<>>, <<>>, <<>>)] >>

InitInc ==
    /\ disk = AbsentFile
    /\ existing_df = <<>>
    /\ df_new = <<>>
    /\ merged_df = <<>>
    /\ raised = FALSE
    /\ pc = "idle"
    /\ current_day = 0
    /\ to_date = 0
    /\ scrape_details = FALSE
    /\ writer = "none"
    /\ call_args = [from_date |-> DayStart(1), to_date |-> DayStart(1)]
    /\ call_result = [started |-> FALSE, resumed |-> FALSE, browser |-> FALSE,
                      units |-> 0, admitted |-> <<>>, done |-> FALSE]
    /\ other_run = <<>>

\* scrape_incremental up to the call of _scrape_range: ensure_csv_header,
\* get_last_datetime_from_csv, the early return, real_start
StartIncremental(from_date, to) ==
    /\ pc = "idle"
    /\ disk' = ensure_csv_header(disk)
    /\ writer' = IF disk' # disk THEN "ensure_csv_header" ELSE writer
    /\ call_args' = [from_date |-> from_date, to_date |-> to]
    /\ LET last_dt == get_last_datetime_from_csv(disk')
           resumed == /\ call_result.started
                      /\ ~call_result.done
                      /\ call_args' = call_args
       IN  IF no_need_to_scrape(last_dt, to)
           THEN /\ call_result' = [started |-> TRUE, resumed |-> resumed,
                                   browser |-> FALSE, units |-> 0,
                                   admitted |-> <<>>, done |-> TRUE]
                /\ UNCHANGED <<pc, current_day, to_date>>
           ELSE /\ call_result' = [started |-> TRUE, resumed |-> resumed,
                                   browser |-> TRUE, units |-> 0,
                                   admitted |-> <<>>, done |-> FALSE]
                /\ current_day' = real_start(last_dt, from_date)
                /\ to_date' = to
                /\ pc' = "inc_get"
    /\ UNCHANGED <<existing_df, df_new, merged_df, raised, scrape_details,
                   other_run>>

\* _scrape_range: driver.get(url) of the month and the rows
\* parse_calendar_page_with_details will write
IncrementalPage ==
    /\ pc = "inc_get"
    /\ df_new' = InWindowOf(Calendar(MaxDay), current_day, to_date)
    /\ call_result' = [call_result EXCEPT !.units = @ + 1, !.admitted = df_new']
    /\ pc' = "inc_rows"
    /\ UNCHANGED <<disk, existing_df, merged_df, raised, current_day, to_date,
                   scrape_details, writer, call_args, other_run>>

\* with open(output_csv, "a") ...: writer.writerow([...]) for the next row
IncrementalAppendRow ==
    /\ pc = "inc_rows"
    /\ df_new # <<>>
    /\ disk' = [disk EXCEPT !.rows = Append(@, ToCsvRow(Head(df_new)))]
    /\ writer' = "append"
    /\ df_new' = Tail(df_new)
    /\ UNCHANGED <<existing_df, merged_df, raised, pc, current_day, to_date,
                   scrape_details, call_args, call_result, other_run>>

\* all rows written: the month loop ends, the driver is quit and
\* scrape_incremental returns
IncrementalDone ==
    /\ pc = "inc_rows"
    /\ df_new = <<>>
    /\ pc' = "idle"
    /\ call_result' = [call_result EXCEPT !.done = TRUE]
    /\ Forget
    /\ UNCHANGED <<disk, writer, call_args, other_run>>

NextInc ==
    \/ \E f, t \in 1..MaxDay : StartIncremental(DayStart(f), DayStart(t))
    \/ IncrementalPage
    \/ IncrementalAppendRow
    \/ IncrementalDone
    \/ Crash

SpecInc == InitInc /\ [][NextInc]_vars

\* the records of the site's events on the days lo..hi
CalendarRecords(lo, hi) ==
    {MonthRecord(Calendar(MaxDay)[i]) :
        i \in {j \in DOMAIN Calendar(MaxDay) :
                  Calendar(MaxDay)[j].day >= lo /\ Calendar(MaxDay)[j].day <= hi}}

\* the fetch of an incremental run has just returned: nothing written yet
JustFetched == pc = "inc_rows" /\ df_new = call_result.admitted

\* the first day of the effective window for the store as it is
WindowStart ==
    LET last_dt == get_last_datetime_from_csv(disk)
    IN  IF last_dt.found /\ last_dt.value.day + 1 > call_args.from_date.day
        THEN last_dt.value.day + 1
        ELSE call_args.from_date.day

\* C12: an incremental run over [from_date, to_date] whose store's last
\* timestamp lies on day L, before to_date, admits the events of every day
\* from max(L + 1, from_date's day) to to_date's day and of no other day;
\* with no data rows the window starts at from_date.
C12_EffectiveFetchWindow ==
    JustFetched =>
        {call_result.admitted[i] : i \in DOMAIN call_result.admitted}
            = CalendarRecords(WindowStart, call_args.to_date.day)

\* C11: when a run over [F, T] was aborted and the following incremental
\* run over the same [F, T] has returned, the store holds the events of
\* every calendar day of [F, T].
C11_ResumeLeavesNoGap ==
    (pc = "idle" /\ call_result.resumed /\ call_result.done) =>
        \A r \in CalendarRecords(call_args.from_date.day, call_args.to_date.day) :
            \E i \in DOMAIN disk.rows : disk.rows[i] = ToCsvRow(r)

\* C13: when the store's last timestamp is greater than or equal to
\* to_date, scrape_incremental performs no fetch, opens no browser session,
\* leaves every data row unchanged and returns.
C13_NoOpRun ==
    [][(/\ pc = "idle"
        /\ get_last_datetime_from_csv(disk).found
        /\ DateTimeLeq(call_args'.to_date,
                       get_last_datetime_from_csv(disk).value))
       => (/\ pc' = "idle"
           /\ ~call_result'.browser
           /\ call_result'.units = 0
           /\ call_result'.done
           /\ disk'.rows = disk.rows)]_vars

\* a run has returned without a browser session from a store whose last
\* timestamp is not before to_date
C13_Witness ==
    /\ pc = "idle"
    /\ call_result.started
    /\ call_result.done
    /\ ~call_result.browser
    /\ get_last_datetime_from_csv(disk).found
    /\ DateTimeLeq(call_args.to_date, get_last_datetime_from_csv(disk).value)

(***************************************************************************)
(* The merge engine: backfill, duplicates inside a batch, shape.           *)
(***************************************************************************)
\* the batch records that re-observe existing record i: same identity key
Reobservations(i) ==
    {j \in DOMAIN df_new : Identity(df_new[j]) = Identity(existing_df[i])}

\* C22: when a batch record has the identity key of an existing record whose
\* Detail is blank and the batch record's Detail is non-blank, the merged
\* record's Detail is that new Detail; an existing record re-observed in
\* any other way is unchanged in all 8 fields.
C22_DetailBackfill ==
    pc = "merged" =>
        \A i \in DOMAIN existing_df :
            Reobservations(i) # {} =>
                IF /\ ~NonBlank(existing_df[i].Detail)
                   /\ \E j \in Reobservations(i) : NonBlank(df_new[j].Detail)
                THEN \E j \in Reobservations(i) :
                        /\ NonBlank(df_new[j].Detail)
                        /\ merged_df[i].Detail = df_new[j].Detail
                ELSE merged_df[i] = existing_df[i]

\* the positions of table df whose record has the identity key of record r
WithIdentityOf(df, r) == {m \in DOMAIN df : Identity(df[m]) = Identity(r)}

\* C23: when the batch holds two records with one identity key that no
\* existing record has, the merged table holds exactly one record with that
\* key, the one that comes last in the batch.
C23_LaterDuplicateWins ==
    pc = "merged" =>
        \A j, k \in DOMAIN df_new :
            (/\ j < k
             /\ Identity(df_new[j]) = Identity(df_new[k])
             /\ WithIdentityOf(existing_df, df_new[j]) = {}
             /\ \A l \in WithIdentityOf(df_new, df_new[j]) : l <= k)
            => /\ Cardinality(WithIdentityOf(merged_df, df_new[j])) = 1
               /\ \A m \in WithIdentityOf(merged_df, df_new[j]) :
                      merged_df[m] = df_new[k]

\* the records of the batch whose identity key no existing record has, in
\* batch order
GenuinelyNew ==
    SelectSeq(df_new, LAMBDA r : WithIdentityOf(existing_df, r) = {})

\* C24: merge_new_data returns the records of the existing table in their
\* order (Detail apart, which a backfill may fill), followed by the batch
\* records whose key is not in the existing table, in batch order; for an
\* empty existing table it returns the batch unchanged.
C24_MergeShape ==
    pc = "merged" =>
        /\ Len(merged_df) >= Len(existing_df)
        /\ \A i \in DOMAIN existing_df :
               [merged_df[i] EXCEPT !.Detail = <<>>]
                   = [existing_df[i] EXCEPT !.Detail = <<>>]
        /\ SubSeq(merged_df, Len(existing_df) + 1, Len(merged_df)) = GenuinelyNew
        /\ (existing_df = <<>> => merged_df = df_new)

(***************************************************************************)
(* parse_calendar_day on its own: applied to every page, flag and existing *)
(* table within the bounds.  A row of the page is [raw, cells]: cells is   *)
(* "all" when every cell can be read, "missing" when a find_element of the *)
(* basic cells raises NoSuchElementException, "stale" when reading the row *)
(* raises another exception.                                               *)
(***************************************************************************)
\* the loop over the rows of the page: acc is [raised, df, opened], opened
\* the positions of the rows whose detail panel was opened
RECURSIVE ParseRows(_, _, _, _, _, _)
ParseRows(page, i, the_date, details, existing, acc) ==
    IF i > Len(page) \/ acc.raised THEN acc
    ELSE IF page[i].cells = "stale"
    THEN [raised |-> TRUE, df |-> <<>>, opened |-> acc.opened]
    ELSE IF page[i].cells = "missing"
    THEN ParseRows(page, i + 1, the_date, details, existing, acc)
    ELSE IF ~ValidTime(parse_event_time(page[i].raw.time, the_date))
    THEN [raised |-> TRUE, df |-> <<>>, opened |-> acc.opened]
    ELSE LET raw == page[i].raw
             iso == isoformat(parse_event_time(raw.time, the_date))
             open == /\ details
                     /\ MatchedDetail(existing, iso, strip(raw.currency),
                                      strip(raw.event)) = <<>>
         IN  ParseRows(page, i + 1, the_date, details, existing,
                 [acc EXCEPT
                     !.df = Append(@, ParseRow(raw, the_date, details, existing)),
                     !.opened = IF open THEN @ \cup {i} ELSE @])

\* parse_calendar_day for a page that loaded and whose rows may fail
parse_calendar_day_rows(page, the_date, details, existing) ==
    ParseRows(page, 1, the_date, details, existing,
              [raised |-> FALSE, df |-> <<>>, opened |-> {}])

PageRows ==
    { [raw |-> RawRow(Label(FALSE, FALSE, <<h, 30, "am">>), <<"U", "S", "D">>,
                      <<"H">>, <<"C", "P", "I">>, <<>>, <<"1">>, <<>>, panel),
       cells |-> "all"] : h \in {10, 24}, panel \in {<<>>, <<"p">>} }
    \cup
    { [raw |-> RawRow(Label(FALSE, FALSE, <<10, 30, "am">>), <<"U", "S", "D">>,
                      <<"H">>, <<"C", "P", "I">>, <<>>, <<"1">>, <<>>, <<"p">>),
       cells |-> c] : c \in {"missing", "stale"} }

\* records the table read at the start of the run can hold for the page's
\* event
PageExistingRows ==
    { Row(isoformat(DateTimeOf(2025, 1, 1, 10, 30, 0, 210)), <<"U", "S", "D">>,
          <<"H">>, <<"C", "P", "I">>, NaN, <<"1">>, NaN, d) :
        d \in {NaN, <<"d">>, <<"e", " ">>} }

InitPage ==
    /\ call_args \in [page : SeqsUpTo(PageRows, MaxBatch),
                      the_date : {DayStart(1)},
                      scrape_details : BOOLEAN,
                      existing_df : SeqsUpTo(PageExistingRows, MaxStore)]
    /\ call_result = <<>>
    /\ pc = "call_page"
    /\ disk = AbsentFile
    /\ existing_df = <<>>
    /\ df_new = <<>>
    /\ merged_df = <<>>
    /\ raised = FALSE
    /\ current_day = 0
    /\ to_date = 0
    /\ scrape_details = FALSE
    /\ writer = "none"
    /\ other_run = <<>>

\* df_day_new = parse_calendar_day(driver, the_date, scrape_details,
\* existing_df)
CallParseCalendarDay ==
    /\ pc = "call_page"
    /\ call_result' = parse_calendar_day_rows(call_args.page, call_args.the_date,
                                              call_args.scrape_details,
                                              call_args.existing_df)
    /\ pc' = IF call_result'.raised THEN "page_raised" ELSE "page_parsed"
    /\ UNCHANGED <<disk, existing_df, df_new, merged_df, raised, current_day,
                   to_date, scrape_details, writer, call_args, other_run>>

NextPage == CallParseCalendarDay

SpecPage == InitPage /\ [][NextPage]_vars

\* the extraction of a row of the page fails
ExtractionFails(row, the_date) ==
    \/ row.cells # "all"
    \/ ~ValidTime(parse_event_time(row.raw.time, the_date))

\* the rows of the page whose extraction does not fail, in page order
GoodRows ==
    SelectSeq(call_args.page,
              LAMBDA row : ~ExtractionFails(row, call_args.the_date))

\* C21: a row whose extraction fails (a cell is missing, or reading it
\* raises any other error) is left out and nothing else: parse_calendar_day
\* returns, with the record of every other row of the page, in page order.
C21_BadRowIsSkipped ==
    pc \in {"page_parsed", "page_raised"} =>
        /\ ~call_result.raised
        /\ call_result.df =
               [i \in DOMAIN GoodRows |->
                   ParseRow(GoodRows[i].raw, call_args.the_date,
                            call_args.scrape_details, call_args.existing_df)]

\* the positions of the existing records with a non-blank Detail that page
\* row i matches in (DateTime, Currency, Event)
DetailedMatches(i) ==
    LET record == ParseRow(call_args.page[i].raw, call_args.the_date,
                           FALSE, <<>>)
    IN  {k \in DOMAIN call_args.existing_df :
            /\ Identity(call_args.existing_df[k]) = Identity(record)
            /\ NonBlank(call_args.existing_df[k].Detail)}

\* the position in the returned batch of page row i
BatchPosition(i) ==
    Cardinality({j \in 1..i :
        ~ExtractionFails(call_args.page[j], call_args.the_date)})

\* C26: with scrape_details on, for a row that matches an existing record
\* with a non-blank Detail no detail panel is opened and the row's Detail in
\* the batch is that existing Detail; a panel is opened only for rows with
\* no such match.
C26_DetailsNotFetchedAgain ==
    (pc = "page_parsed" /\ call_args.scrape_details) =>
        \A i \in DOMAIN call_args.page :
            ~ExtractionFails(call_args.page[i], call_args.the_date) =>
                (DetailedMatches(i) # {} =>
                    /\ i \notin call_result.opened
                    /\ \E k \in DetailedMatches(i) :
                           call_result.df[BatchPosition(i)].Detail
                               = call_args.existing_df[k].Detail)

(***************************************************************************)
(* The day loop of scrape_range_pandas with from_date and to_date as the   *)
(* datetimes they are: days of January 2025 at midnight or at noon.        *)
(* call_result is the log of the run: the days fetched, each with whether  *)
(* its batch was empty, and the days persisted, in order.                  *)
(***************************************************************************)
\* a datetime of day d at hour h
DayAt(d, h) == [DayStart(d) EXCEPT !.hour = h]

InitDays ==
    /\ pc = "idle"
    /\ current_day = DayStart(0)
    /\ to_date = DayStart(0)
    /\ call_args = [from_date |-> DayStart(1), to_date |-> DayStart(1)]
    /\ call_result = [fetched |-> <<>>, persisted |-> <<>>]
    /\ disk = AbsentFile
    /\ existing_df = <<>>
    /\ df_new = <<>>
    /\ merged_df = <<>>
    /\ raised = FALSE
    /\ scrape_details = FALSE
    /\ writer = "none"
    /\ other_run = <<>>

\* scrape_range_pandas(from_date, to_date, ...) up to current_day = from_date
StartDayLoop(from_date, to) ==
    /\ pc = "idle"
    /\ call_args' = [from_date |-> from_date, to_date |-> to]
    /\ call_result' = [fetched |-> <<>>, persisted |-> <<>>]
    /\ current_day' = from_date
    /\ to_date' = to
    /\ pc' = "fetch"
    /\ UNCHANGED <<disk, existing_df, df_new, merged_df, raised,
                   scrape_details, writer, other_run>>

\* while current_day <= to_date: df_new = scrape_day(driver, current_day,
\* ...); with an empty batch, current_day += timedelta(days=1)
FetchDay(empty) ==
    /\ pc = "fetch"
    /\ DateTimeLeq(current_day, to_date)
    /\ call_result' = [call_result EXCEPT
                           !.fetched = Append(@, [day |-> current_day.day,
                                                  empty |-> empty])]
    /\ IF empty
       THEN /\ current_day' = [current_day EXCEPT !.day = @ + 1]
            /\ pc' = "fetch"
       ELSE /\ pc' = "day_write"
            /\ UNCHANGED current_day
    /\ UNCHANGED <<disk, existing_df, df_new, merged_df, raised, to_date,
                   scrape_details, writer, call_args, other_run>>

\* merge_new_data, write_data_to_csv; current_day += timedelta(days=1)
PersistDay ==
    /\ pc = "day_write"
    /\ call_result' = [call_result EXCEPT !.persisted = Append(@, current_day.day)]
    /\ current_day' = [current_day EXCEPT !.day = @ + 1]
    /\ pc' = "fetch"
    /\ UNCHANGED <<disk, existing_df, df_new, merged_df, raised, to_date,
                   scrape_details, writer, call_args, other_run>>

\* while current_day <= to_date is false: the run ends
DayLoopExit ==
    /\ pc = "fetch"
    /\ ~DateTimeLeq(current_day, to_date)
    /\ pc' = "idle"
    /\ UNCHANGED <<disk, existing_df, df_new, merged_df, raised, current_day,
                   to_date, scrape_details, writer, call_args, call_result,
                   other_run>>

NextDays ==
    \/ \E f, t \in 1..MaxDay, hf, ht \in {0, 9, 12} :
           StartDayLoop(DayAt(f, hf), DayAt(t, ht))
    \/ \E empty \in BOOLEAN : FetchDay(empty)
    \/ PersistDay
    \/ DayLoopExit

SpecDays == InitDays /\ [][NextDays]_vars

\* the days lo..hi in ascending order
DaysFromTo(lo, hi) == [i \in 1..(IF hi >= lo THEN hi - lo + 1 ELSE 0) |-> lo + i - 1]

\* C25: for from_date <= to_date, scrape_range_pandas fetches each calendar
\* day from from_date's day to to_date's day once, in ascending order,
\* whatever the times of day of from_date and to_date; the batch of a day is
\* persisted before the next day is fetched.
C25_DayLoopCoverage ==
    /\ (/\ pc = "idle"
        /\ current_day # DayStart(0)
        /\ DateTimeLeq(call_args.from_date, call_args.to_date))
       => [i \in DOMAIN call_result.fetched |-> call_result.fetched[i].day]
              = DaysFromTo(call_args.from_date.day, call_args.to_date.day)
    /\ \A i \in 1..(Len(call_result.fetched) - 1) :
           \/ call_result.fetched[i].empty
           \/ \E k \in DOMAIN call_result.persisted :
                  call_result.persisted[k] = call_result.fetched[i].day

(***************************************************************************)
(* The month loop of _scrape_range (and, line for line, of                 *)
(* scrape_range_with_details): the units it runs for a window of dates in  *)
(* the months from December 2024 on.  call_result is [current, boundary,   *)
(* units], a unit being [start, end, full]: partial_start, partial_end and *)
(* whether the full-month URL was built.                                   *)
(***************************************************************************)
MaxMonths == 3

IsLeap(y) == (y % 4 = 0 /\ y % 100 # 0) \/ y % 400 = 0

DaysInMonth(y, m) ==
    IF m = 2 THEN (IF IsLeap(y) THEN 29 ELSE 28)
    ELSE IF m \in {4, 6, 9, 11} THEN 30
    ELSE 31

\* a < b for datetimes of one timezone
DateTimeLess(a, b) ==
    LET ka == <<a.year, a.month, a.day, a.hour, a.minute, a.second>>
        kb == <<b.year, b.month, b.day, b.hour, b.minute, b.second>>
    IN  \E i \in 1..6 : ka[i] < kb[i] /\ \A j \in 1..(i - 1) : ka[j] = kb[j]

\* dt + timedelta(days=n), n >= 0
RECURSIVE PlusDays(_, _)
PlusDays(dt, n) ==
    IF dt.day + n <= DaysInMonth(dt.year, dt.month)
    THEN [dt EXCEPT !.day = @ + n]
    ELSE PlusDays([dt EXCEPT !.year = IF dt.month = 12 THEN @ + 1 ELSE @,
                             !.month = IF dt.month = 12 THEN 1 ELSE @ + 1,
                             !.day = 1],
                  n - (DaysInMonth(dt.year, dt.month) - dt.day + 1))

\* dt - timedelta(days=1)
MinusOneDay(dt) ==
    IF dt.day > 1 THEN [dt EXCEPT !.day = @ - 1]
    ELSE LET y == IF dt.month = 1 THEN dt.year - 1 ELSE dt.year
             m == IF dt.month = 1 THEN 12 ELSE dt.month - 1
         IN  [dt EXCEPT !.year = y, !.month = m, !.day = DaysInMonth(y, m)]

\* datetime(dt.year, dt.month, 1, tzinfo=...)
FirstOfMonth(dt) == DateTimeOf(dt.year, dt.month, 1, 0, 0, 0, dt.utcoffset)

\* the first day of the month after the month of current is taken for the
\* end of the month
end_of_month_next_first(current) ==
    FirstOfMonth(PlusDays([current EXCEPT !.day = 28], 4))

\* next_candidate = start_of_m.replace(day=28) + timedelta(days=4);
\* end_of_m = datetime(next_candidate.year, next_candidate.month, 1) -
\* timedelta(days=1)
end_of_month(current) ==
    MinusOneDay(FirstOfMonth(PlusDays([current EXCEPT !.day = 28], 4)))

\* the dates a window can start or end on: the first, the 15th and the last
\* day of a month, at midnight or at noon
WindowMonths ==
    { IF k = 0 THEN <<2024, 12>> ELSE <<2025, k>> : k \in 0..(MaxMonths - 1) }

WindowDates ==
    UNION { { DateTimeOf(ym[1], ym[2], d, h, 0, 0, 210) :
                 d \in {1, 15, DaysInMonth(ym[1], ym[2])}, h \in {0, 12} } :
            ym \in WindowMonths }

InitMonths ==
    /\ pc = "idle"
    /\ call_args = [from_date |-> DateTimeOf(2024, 12, 1, 0, 0, 0, 210),
                    to_date |-> DateTimeOf(2024, 12, 1, 0, 0, 0, 210)]
    /\ call_result = [current |-> DateTimeOf(2024, 12, 1, 0, 0, 0, 210),
                      boundary |-> DateTimeOf(2024, 12, 1, 0, 0, 0, 210),
                      units |-> <<>>]
    /\ current_day = 0
    /\ to_date = 0
    /\ disk = AbsentFile
    /\ existing_df = <<>>
    /\ df_new = <<>>
    /\ merged_df = <<>>
    /\ raised = FALSE
    /\ scrape_details = FALSE
    /\ writer = "none"
    /\ other_run = <<>>

\* current = datetime(from_date.year, from_date.month, 1); boundary =
\* to_date.replace(day=1) + timedelta(days=32), then the first of its month
StartMonthLoop(from_date, to) ==
    /\ pc = "idle"
    /\ call_args' = [from_date |-> from_date, to_date |-> to]
    /\ call_result' =
           [current |-> FirstOfMonth(from_date),
            boundary |-> FirstOfMonth(PlusDays([to EXCEPT !.day = 1], 32)),
            units |-> <<>>]
    /\ pc' = "month"
    /\ UNCHANGED <<disk, existing_df, df_new, merged_df, raised, current_day,
                   to_date, scrape_details, writer, other_run>>

\* one pass of while current < boundary
MonthUnit ==
    /\ pc = "month"
    /\ DateTimeLess(call_result.current, call_result.boundary)
    /\ LET start_of_m == call_result.current
           end_of_m == end_of_month(start_of_m)
           partial_start == IF DateTimeLess(call_args.from_date, start_of_m)
                            THEN start_of_m ELSE call_args.from_date
           partial_end == IF DateTimeLess(end_of_m, call_args.to_date)
                          THEN end_of_m ELSE call_args.to_date
           full == partial_start.day = 1 /\ partial_end.day = end_of_m.day
       IN  call_result' =
               [call_result EXCEPT
                   !.units = Append(@, [start |-> partial_start,
                                        end |-> partial_end,
                                        full |-> full]),
                   !.current = FirstOfMonth(PlusDays(start_of_m, 32))]
    /\ UNCHANGED <<disk, existing_df, df_new, merged_df, raised, pc,
                   current_day, to_date, scrape_details, writer, call_args,
                   other_run>>

\* while current < boundary is false: driver.quit() and return
MonthLoopExit ==
    /\ pc = "month"
    /\ ~DateTimeLess(call_result.current, call_result.boundary)
    /\ pc' = "months_done"
    /\ UNCHANGED <<disk, existing_df, df_new, merged_df, raised, current_day,
                   to_date, scrape_details, writer, call_args, call_result,
                   other_run>>

NextMonths ==
    \/ \E f, t \in WindowDates : StartMonthLoop(f, t)
    \/ MonthUnit
    \/ MonthLoopExit

SpecMonths == InitMonths /\ [][NextMonths]_vars

\* the number of a calendar month
MonthNo(dt) == dt.year * 12 + dt.month

\* the number of calendar months that intersect [from_date, to_date]
MonthsInWindow == MonthNo(call_args.to_date) - MonthNo(call_args.from_date) + 1

\* C27: for from_date <= to_date the month loop runs one unit for each
\* calendar month that intersects [from_date, to_date], in ascending order,
\* and stops; the unit of a month covers exactly the days of that month that
\* are days of the window, so the unit windows are disjoint and their union
\* is the window; the full-month URL is built only for a unit that covers
\* its whole month.
C27_MonthLoopPartition ==
    ~DateTimeLess(call_args.to_date, call_args.from_date) =>
        /\ Len(call_result.units) <= MonthsInWindow
        /\ pc = "months_done" => Len(call_result.units) = MonthsInWindow
        /\ \A i \in DOMAIN call_result.units :
               LET unit == call_result.units[i]
                   month == MonthNo(call_args.from_date) + i - 1
                   last == DaysInMonth(unit.start.year, unit.start.month)
               IN  /\ MonthNo(unit.start) = month
                   /\ MonthNo(unit.end) = month
                   /\ unit.start.day
                          = IF i = 1 THEN call_args.from_date.day ELSE 1
                   /\ unit.end.day
                          = IF i = MonthsInWindow THEN call_args.to_date.day
                            ELSE last
                   /\ unit.full => (unit.start.day = 1 /\ unit.end.day = last)

\* the loop has ended after a unit for a part of a month, a unit for a whole
\* month built with the full-month URL, and a third unit
C27_Witness ==
    /\ pc = "months_done"
    /\ ~DateTimeLess(call_args.to_date, call_args.from_date)
    /\ Len(call_result.units) = 3
    /\ call_result.units[1].start.day = 15
    /\ ~call_result.units[1].full
    /\ call_result.units[2].full
    /\ call_result.units[3].end.day = 15

(***************************************************************************)
(* The browser session of the range-scraping entry points.  call_args is   *)
(* the entry point that runs; call_result is [driver, display, units,      *)
(* failed, outcome]: driver is "none", "open" or "quit", display "none",   *)
(* "started" or "stopped", units the units done, failed whether an         *)
(* exception is on its way out, outcome "running", "returned" or "raised". *)
(***************************************************************************)
MaxUnits == 4

EntryPoints ==
    {"scrape_range_pandas", "_scrape_range", "scrape_range_with_details",
     "ForexFactoryScraper.scrape"}

\* scrape_range_pandas creates the display and the driver inside its try;
\* the other entry points create the driver before it
CreatesInsideTry(entry) == entry = "scrape_range_pandas"

InitSession ==
    /\ pc = "idle"
    /\ call_args = "scrape_range_pandas"
    /\ call_result = [driver |-> "none", display |-> "none", units |-> 0,
                      failed |-> FALSE, outcome |-> "returned"]
    /\ current_day = 0
    /\ to_date = 0
    /\ disk = AbsentFile
    /\ existing_df = <<>>
    /\ df_new = <<>>
    /\ merged_df = <<>>
    /\ raised = FALSE
    /\ scrape_details = FALSE
    /\ writer = "none"
    /\ other_run = <<>>

\* the entry point is called
StartEntry(entry) ==
    /\ pc \in {"idle", "end"}
    /\ call_args' = entry
    /\ call_result' = [driver |-> "none", display |-> "none", units |-> 0,
                       failed |-> FALSE, outcome |-> "running"]
    /\ pc' = IF CreatesInsideTry(entry) THEN "create_display" ELSE "create_driver"
    /\ UNCHANGED <<disk, existing_df, df_new, merged_df, raised, current_day,
                   to_date, scrape_details, writer, other_run>>

\* display = Display(visible=0, size=(1400, 1000)); display.start(): an
\* exception of either goes to the except clause, display set when start()
\* was reached
CreateDisplay(ok, assigned) ==
    /\ pc = "create_display"
    /\ ok => assigned
    /\ call_result' = [call_result EXCEPT
                           !.display = IF assigned THEN "started" ELSE "none",
                           !.failed = ~ok]
    /\ pc' = IF ok THEN "create_driver" ELSE "finally"
    /\ UNCHANGED <<disk, existing_df, df_new, merged_df, raised, current_day,
                   to_date, scrape_details, writer, call_args, other_run>>

\* driver = uc.Chrome(...): no session when it raises
CreateDriver(ok) ==
    /\ pc = "create_driver"
    /\ call_result' =
           [call_result EXCEPT
               !.driver = IF ok THEN "open" ELSE "none",
               !.failed = ~ok,
               !.outcome = IF ok \/ CreatesInsideTry(call_args)
                           THEN "running" ELSE "raised"]
    /\ pc' = IF CreatesInsideTry(call_args)
             THEN (IF ok THEN "units" ELSE "finally")
             ELSE (IF ok THEN "setup" ELSE "end")
    /\ UNCHANGED <<disk, existing_df, df_new, merged_df, raised, current_day,
                   to_date, scrape_details, writer, call_args, other_run>>

\* the statements between the creation of the driver and the try:
\* driver.set_window_size(1400, 1000), the computation of current and
\* boundary and, in ForexFactoryScraper.scrape, ensure_csv_header; an
\* exception of one of them leaves the entry point
SetUp(ok) ==
    /\ pc = "setup"
    /\ call_result' = [call_result EXCEPT
                           !.failed = ~ok,
                           !.outcome = IF ok THEN "running" ELSE "raised"]
    /\ pc' = IF ok THEN "units" ELSE "end"
    /\ UNCHANGED <<disk, existing_df, df_new, merged_df, raised, current_day,
                   to_date, scrape_details, writer, call_args, other_run>>

\* one pass of the loop inside the try: the fetch, parse, merge and write
\* of a unit; an exception goes to the except clause or the finally
Unit(ok) ==
    /\ pc = "units"
    /\ call_result.units < MaxUnits
    /\ call_result' = [call_result EXCEPT
                           !.units = IF ok THEN @ + 1 ELSE @,
                           !.failed = ~ok]
    /\ pc' = IF ok THEN "units" ELSE "finally"
    /\ UNCHANGED <<disk, existing_df, df_new, merged_df, raised, current_day,
                   to_date, scrape_details, writer, call_args, other_run>>

\* the loop condition is false, or the loop is left by break
UnitsDone ==
    /\ pc = "units"
    /\ pc' = "finally"
    /\ UNCHANGED <<disk, existing_df, df_new, merged_df, raised, current_day,
                   to_date, scrape_details, writer, call_args, call_result,
                   other_run>>

\* finally: driver.quit(), in scrape_range_pandas under if driver.  The
\* except clause of scrape_range_pandas has swallowed the exception; the
\* other entry points let it propagate when the finally is done
QuitDriver ==
    /\ pc = "finally"
    /\ call_result' =
           [call_result EXCEPT
               !.driver = IF @ = "open" THEN "quit" ELSE @,
               !.outcome = IF CreatesInsideTry(call_args) THEN "running"
                           ELSE IF call_result.failed THEN "raised"
                           ELSE "returned"]
    /\ pc' = IF CreatesInsideTry(call_args) THEN "stop_display" ELSE "end"
    /\ UNCHANGED <<disk, existing_df, df_new, merged_df, raised, current_day,
                   to_date, scrape_details, writer, call_args, other_run>>

\* finally of scrape_range_pandas: if display: display.stop()
StopDisplay ==
    /\ pc = "stop_display"
    /\ call_result' = [call_result EXCEPT
                           !.display = IF @ = "started" THEN "stopped" ELSE @]
    /\ pc' = "final_write"
    /\ UNCHANGED <<disk, existing_df, df_new, merged_df, raised, current_day,
                   to_date, scrape_details, writer, call_args, other_run>>

\* scrape_range_pandas after its try statement: the final
\* write_data_to_csv, whose exception leaves the entry point
FinalWrite(ok) ==
    /\ pc = "final_write"
    /\ call_result' = [call_result EXCEPT
                           !.failed = ~ok,
                           !.outcome = IF ok THEN "returned" ELSE "raised"]
    /\ pc' = "end"
    /\ UNCHANGED <<disk, existing_df, df_new, merged_df, raised, current_day,
                   to_date, scrape_details, writer, call_args, other_run>>

NextSession ==
    \/ \E entry \in EntryPoints : StartEntry(entry)
    \/ \E ok, assigned \in BOOLEAN : CreateDisplay(ok, assigned)
    \/ \E ok \in BOOLEAN : CreateDriver(ok)
    \/ \E ok \in BOOLEAN : SetUp(ok)
    \/ \E ok \in BOOLEAN : Unit(ok)
    \/ UnitsDone
    \/ QuitDriver
    \/ StopDisplay
    \/ \E ok \in BOOLEAN : FinalWrite(ok)

SpecSession == InitSession /\ [][NextSession]_vars

\* C28: when an entry point has ended, by return or by an exception, no
\* driver it created is still open and no display it started is still
\* running.
C28_SessionReleased ==
    pc = "end" =>
        /\ call_result.driver # "open"
        /\ call_result.display # "started"

====
